---- MODULE Spec2Model ----
(***************************************************************************)
(* Terrain tile compositing of utymap: TerraBuilder::build and the layer   *)
(* builders of src/terrain/TerraBuilder.cpp.                               *)
(*                                                                         *)
(* Geometry.  Input coordinates are integers, so every IntPoint the        *)
(* builder produces is a multiple of Scale.  A polygon set is observed     *)
(* through the winding number it gives to one sample point per unit cell   *)
(* of the lattice; the sample points lie on no line through two lattice    *)
(* points, so the winding number is always defined.  The boolean engine    *)
(* (meshing/clipper.hpp) is modelled by its contract: union, difference    *)
(* and intersection under a fill rule, over the paths added since the last *)
(* Clear; a solution is returned as the rectangles of the maximal          *)
(* horizontal runs of cells it covers.  Road inputs are axis-parallel      *)
(* polylines, for which offsetting with miter joins and square caps is     *)
(* the sum with a square of side twice the offset.                         *)
(***************************************************************************)
EXTENDS Integers, Sequences, FiniteSets

\* ------------------------------------------------------------------ bounds
GridMax == 3          \* largest input coordinate
MaxRegions == 2       \* most regions in one input collection

\* ------------------------------------------------------- program constants
Scale == 100000000
\* Scale * Scale exceeds the 32-bit integers of TLC, so areas are kept as
\* multiples of Quantum^2 and DoubleScale is expressed in the same unit.
Quantum == Scale \div 100
DoubleScaleQ == (Scale \div Quantum) * (Scale \div Quantum)

\* ------------------------------------------------------------ the lattice
\* the road class keys used (a key is the offset distance of its class)
RoadKeys == { 1 }
Reach == CHOOSE k \in RoadKeys : \A j \in RoadKeys : j <= k
Lo == 0 - Reach
Hi == GridMax + Reach
Cells == (Lo .. Hi - 1) \X (Lo .. Hi - 1)
K == Hi - Lo + 1
\* sample point of a cell, in units of 1 / K^2
Sample(c) == << K * K * c[1] + 1, K * K * c[2] + K >>

Rect(x0, y0, x1, y1) == << <<x0, y0>>, <<x1, y0>>, <<x1, y1>>, <<x0, y1>> >>

\* winding number of the closed polygon pts (lattice units) around cell c:
\* the edges that cross the ray from the sample point upwards, less those
\* that cross it downwards
Winding(pts, c) ==
    LET n == Len(pts)
        sx == K * K * c[1] + 1
        sy == K * K * c[2] + K
        up == { i \in 1 .. n :
                  LET a == pts[i]
                      b == pts[(i % n) + 1]
                  IN  /\ K * K * a[2] <= sy
                      /\ sy < K * K * b[2]
                      /\ (b[1] - a[1]) * (sy - K * K * a[2])
                           - (sx - K * K * a[1]) * (b[2] - a[2]) > 0 }
        down == { i \in 1 .. n :
                  LET a == pts[i]
                      b == pts[(i % n) + 1]
                  IN  /\ K * K * b[2] <= sy
                      /\ sy < K * K * a[2]
                      /\ (b[1] - a[1]) * (sy - K * K * a[2])
                           - (sx - K * K * a[1]) * (b[2] - a[2]) < 0 }
    IN  Cardinality(up) - Cardinality(down)

\* a fixed-point path seen on the lattice
Lattice(path) == [ i \in 1 .. Len(path) |-> << path[i][1] \div Scale, path[i][2] \div Scale >> ]

Lattices(paths) == [ i \in 1 .. Len(paths) |-> Lattice(paths[i]) ]

\* the winding numbers of the first n polygons of lats, added up
RECURSIVE SumWinding(_, _, _)
SumWinding(lats, n, c) ==
    IF n = 0 THEN 0 ELSE Winding(lats[n], c) + SumWinding(lats, n - 1, c)

\* the cells a committed polygon set covers
Covered(paths) ==
    LET lats == Lattices(paths)
    IN  { c \in Cells : \E i \in 1 .. Len(lats) : Winding(lats[i], c) # 0 }

\* the cells an input region (its own points) covers
InRegion(region, c) == Winding(region, c) # 0

\* ------------------------------------------------- the boolean engine
\* ClipperLib::Clipper: subject and clip paths held until Clear, and the
\* record of the calls made on the instance.
NewClipper == [ subj |-> << >>, clip |-> << >>, log |-> << >> ]

AddPath(clipper, path, polyType) ==
    IF polyType = "ptSubject"
    THEN [ clipper EXCEPT !.subj = Append(@, path), !.log = Append(@, "AddPath") ]
    ELSE [ clipper EXCEPT !.clip = Append(@, path), !.log = Append(@, "AddPath") ]

AddPaths(clipper, paths, polyType) ==
    IF polyType = "ptSubject"
    THEN [ clipper EXCEPT !.subj = @ \o paths, !.log = Append(@, "AddPaths") ]
    ELSE [ clipper EXCEPT !.clip = @ \o paths, !.log = Append(@, "AddPaths") ]

Clear(clipper) == [ clipper EXCEPT !.subj = << >>, !.clip = << >>, !.log = Append(@, "Clear") ]

Filled(w, fillType) ==
    IF fillType = "pftEvenOdd" THEN w % 2 # 0 ELSE w > 0

\* the rectangle of the cells (x0, y) .. (x1, y), counter-clockwise
RunPath(x0, x1, y) ==
    << << x0 * Scale, y * Scale >>, << (x1 + 1) * Scale, y * Scale >>,
       << (x1 + 1) * Scale, (y + 1) * Scale >>, << x0 * Scale, (y + 1) * Scale >> >>

\* the cells of S as a sequence of rectangles, one for every maximal
\* horizontal run of cells, in lexicographic order of the runs' first cells
RECURSIVE RunPaths(_, _)
RunPaths(S, starts) ==
    IF starts = {} THEN << >>
    ELSE LET c == CHOOSE a \in starts : \A b \in starts :
                      a[2] < b[2] \/ (a[2] = b[2] /\ a[1] <= b[1])
             x1 == CHOOSE x \in c[1] .. Hi - 1 :
                      /\ \A z \in c[1] .. x : << z, c[2] >> \in S
                      /\ << x + 1, c[2] >> \notin S
         IN  << RunPath(c[1], x1, c[2]) >> \o RunPaths(S, starts \ {c})

CellPaths(S) == RunPaths(S, { c \in S : << c[1] - 1, c[2] >> \notin S })

Solve(clipper, clipType, subjFill, clipFill) ==
    LET subj == Lattices(clipper.subj)
        clip == Lattices(clipper.clip)
        inS(c) == Filled(SumWinding(subj, Len(subj), c), subjFill)
        inC(c) == Filled(SumWinding(clip, Len(clip), c), clipFill)
        keep(c) == CASE clipType = "ctUnion" -> inS(c) \/ inC(c)
                     [] clipType = "ctIntersection" -> inS(c) /\ inC(c)
                     [] clipType = "ctDifference" -> inS(c) /\ ~ inC(c)
    IN  CellPaths({ c \in Cells : keep(c) })

\* Clipper::Execute(clipType, solution, subjFillType, clipFillType)
Execute(clipper, clipType, subjFill, clipFill) ==
    [ clipper |-> [ clipper EXCEPT !.log = Append(@, "Execute") ],
      out |-> Solve(clipper, clipType, subjFill, clipFill) ]

\* Clipper::Execute(clipType, solution): both fill types default to pftEvenOdd
ExecuteDefault(clipper, clipType) == Execute(clipper, clipType, "pftEvenOdd", "pftEvenOdd")

\* ------------------------------------------------- the offset engine
\* ClipperLib::ClipperOffset: the open paths held until Clear.
NewOffset == [ paths |-> << >>, log |-> << >> ]

OffsetAddPaths(offset, paths) ==
    [ offset EXCEPT !.paths = @ \o paths, !.log = Append(@, "AddPaths") ]

OffsetClear(offset) == [ offset EXCEPT !.paths = << >>, !.log = Append(@, "Clear") ]

\* cell c lies within distance delta (miter joins, square caps) of the
\* axis-parallel polyline pts
NearPolyline(pts, delta, c) ==
    \E i \in 1 .. Len(pts) :
        LET a == pts[i]
            b == pts[IF i < Len(pts) THEN i + 1 ELSE i]
            x0 == IF a[1] < b[1] THEN a[1] ELSE b[1]
            x1 == IF a[1] < b[1] THEN b[1] ELSE a[1]
            y0 == IF a[2] < b[2] THEN a[2] ELSE b[2]
            y1 == IF a[2] < b[2] THEN b[2] ELSE a[2]
        IN  /\ x0 - delta <= c[1] /\ c[1] + 1 <= x1 + delta
            /\ y0 - delta <= c[2] /\ c[2] + 1 <= y1 + delta

\* ClipperOffset::Execute(solution, delta)
OffsetExecute(offset, delta) ==
    [ offset |-> [ offset EXCEPT !.log = Append(@, "Execute") ],
      out |-> LET lats == Lattices(offset.paths)
              IN  CellPaths({ c \in Cells : \E i \in 1 .. Len(lats) :
                                  NearPolyline(lats[i], delta, c) }) ]

\* ------------------------------------------------- TerraBuilder.cpp
\* TerraContext, as constructed
NewContext ==
    [ clipRect |-> << >>, water |-> << >>, carRoads |-> << >>, walkRoads |-> << >>,
      surfaces |-> << >>, background |-> << >>, mesh |-> << >> ]

IntPoint(x, y) == << x, y >>

createPathFromRect(tileRect) ==
    << IntPoint(tileRect.xMin * Scale, tileRect.yMin * Scale),
       IntPoint(tileRect.xMin * Scale, tileRect.yMin * Scale),
       IntPoint(tileRect.xMin * Scale, tileRect.yMin * Scale),
       IntPoint(tileRect.xMin * Scale, tileRect.yMin * Scale) >>

\* x bound to a name in F, as a local variable is
Bind(x, F(_)) == F(x)

\* clipByRect without the closing Clear
clipByRectNoClear(clipper, clipRect, subjects) ==
    LET c1 == AddPaths(clipper, subjects, "ptSubject")
        c2 == AddPath(c1, clipRect, "ptClip")
    IN  Bind(ExecuteDefault(c2, "ctIntersection"), LAMBDA e :
            [ clipper |-> e.clipper, out |-> e.out ])

clipByRect(clipper, clipRect, subjects) ==
    LET c1 == AddPaths(clipper, subjects, "ptSubject")
        c2 == AddPath(c1, clipRect, "ptClip")
    IN  Bind(ExecuteDefault(c2, "ctIntersection"), LAMBDA e :
            [ clipper |-> Clear(e.clipper), out |-> e.out ])

\* Path p(n) followed by n push_back: n value-initialised points, then the
\* converted ones
PathOfRegion(points) ==
    [ i \in 1 .. Len(points) |-> IntPoint(0, 0) ]
        \o [ i \in 1 .. Len(points) |-> IntPoint(points[i][1] * Scale, points[i][2] * Scale) ]

\* Paths paths(m) followed by m push_back: m empty paths, then the converted ones
buildPaths(regions) ==
    [ i \in 1 .. Len(regions) |-> << >> ]
        \o [ i \in 1 .. Len(regions) |-> PathOfRegion(regions[i]) ]

\* the keys of a map, ascending
RECURSIVE KeysAscending(_)
KeysAscending(S) ==
    IF S = {} THEN << >>
    ELSE LET k == CHOOSE a \in S : \A b \in S : a <= b
         IN  << k >> \o KeysAscending(S \ {k})

\* the loop of buildOffsetSolution; st holds the two engines
RECURSIVE OffsetLoop(_, _, _)
OffsetLoop(st, roads, keys) ==
    IF keys = << >> THEN st
    ELSE LET r == Head(keys)
             o1 == OffsetAddPaths(st.offset, buildPaths(roads[r]))
         IN  OffsetLoop(Bind(OffsetExecute(o1, r), LAMBDA e :
                            [ clipper |-> AddPaths(st.clipper, e.out, "ptSubject"),
                              offset |-> OffsetClear(e.offset) ]),
                        roads, Tail(keys))

buildOffsetSolution(clipper, offset, roads) ==
    Bind(OffsetLoop([ clipper |-> clipper, offset |-> offset ], roads,
                    KeysAscending(DOMAIN roads)), LAMBDA l :
    Bind(Execute(l.clipper, "ctUnion", "pftPositive", "pftPositive"), LAMBDA e :
        [ clipper |-> Clear(e.clipper), offset |-> l.offset, out |-> e.out ]))

clipRoads(clipper, context, roads) ==
    LET c1 == AddPaths(clipper, context.water, "ptClip")
        c2 == AddPaths(c1, roads, "ptSubject")
    IN  Bind(Execute(c2, "ctDifference", "pftPositive", "pftPositive"), LAMBDA e :
            clipByRect(Clear(e.clipper), context.clipRect, e.out))

\* std::abs(area / DoubleScale) < 0.001, area being ClipperLib::Area(path);
\* the vertices are multiples of Quantum
TwiceAreaQ(path) ==
    LET n == Len(path)
        X(i) == path[i][1] \div Quantum
        Y(i) == path[i][2] \div Quantum
        term(i) == X(i) * Y((i % n) + 1) - X((i % n) + 1) * Y(i)
        RECURSIVE Sum(_)
        Sum(i) == IF i = 0 THEN 0 ELSE term(i) + Sum(i - 1)
    IN  Sum(n)

Abs(x) == IF x < 0 THEN 0 - x ELSE x

IsSmall(path) == 1000 * Abs(TwiceAreaQ(path)) < 2 * DoubleScaleQ

RECURSIVE populateMesh(_, _, _)
populateMesh(mesh, region, paths) ==
    IF paths = << >> THEN mesh
    ELSE IF IsSmall(Head(paths))
         THEN populateMesh(mesh, region, Tail(paths))    \* continue
         ELSE populateMesh(mesh, region, Tail(paths))    \* nothing is added to the mesh

RECURSIVE WaterLoop(_, _)
WaterLoop(clipper, regions) ==
    IF regions = << >> THEN clipper
    ELSE WaterLoop(AddPath(clipper, PathOfRegion(Head(regions)), "ptSubject"), Tail(regions))

buildWater(clipper, context, regions) ==
    Bind(ExecuteDefault(WaterLoop(clipper, regions), "ctUnion"), LAMBDA e :
    Bind(clipByRect(Clear(e.clipper), context.clipRect, e.out), LAMBDA r :
        [ clipper |-> r.clipper,
          context |-> [ context EXCEPT !.water = r.out ],
          solution |-> e.out ]))

\* buildRoads committing the offset solutions as they are, unclipped
buildRoadsRaw(clipper, context, carMap, walkMap) ==
    Bind(buildOffsetSolution(clipper, NewOffset, carMap), LAMBDA car :
    Bind(buildOffsetSolution(car.clipper, car.offset, walkMap), LAMBDA walk :
        [ clipper |-> walk.clipper, offset |-> walk.offset,
          context |-> [ context EXCEPT !.carRoads = car.out, !.walkRoads = walk.out ],
          carRoadPaths |-> car.out, walkRoadsPaths |-> walk.out,
          extrudedWalkRoads |-> walk.out ]))

buildRoads(clipper, context, carMap, walkMap) ==
    Bind(buildOffsetSolution(clipper, NewOffset, carMap), LAMBDA car :
    Bind(buildOffsetSolution(car.clipper, car.offset, walkMap), LAMBDA walk :
    Bind(ExecuteDefault(AddPaths(AddPaths(walk.clipper, car.out, "ptClip"),
                                 walk.out, "ptSubject"), "ctDifference"), LAMBDA e :
    Bind(clipRoads(Clear(e.clipper), context, car.out), LAMBDA r1 :
    Bind(clipRoads(r1.clipper, context, e.out), LAMBDA r2 :
        [ clipper |-> r2.clipper, offset |-> walk.offset,
          context |-> [ context EXCEPT !.carRoads = r1.out, !.walkRoads = r2.out ],
          carRoadPaths |-> car.out, walkRoadsPaths |-> walk.out,
          extrudedWalkRoads |-> e.out ])))))

\* the clip operands of the difference of buildSurfaces, added in its order
SurfaceClips(clipper, context) ==
    LET c2 == AddPaths(clipper, context.carRoads, "ptClip")
        c3 == AddPaths(c2, context.walkRoads, "ptClip")
        c4 == AddPaths(c3, context.water, "ptClip")
    IN  AddPaths(c4, context.surfaces, "ptClip")

\* one iteration of the loop of buildSurfaces; st holds the clipper, the
\* context and the entries recorded so far
SurfaceStep(st, key, regions) ==
    Bind(ExecuteDefault(AddPaths(st.clipper, buildPaths(regions), "ptSubject"), "ctUnion"),
         LAMBDA u :
    Bind(Execute(AddPaths(SurfaceClips(Clear(u.clipper), st.context), u.out, "ptSubject"),
                 "ctDifference", "pftPositive", "pftPositive"), LAMBDA e :
    Bind(clipByRect(Clear(e.clipper), st.context.clipRect, e.out), LAMBDA r :
        [ clipper |-> r.clipper,
          context |-> [ st.context EXCEPT !.surfaces = @ \o r.out ],
          entries |-> Append(st.entries,
                             [ key |-> key, surfacesUnion |-> u.out, result |-> r.out,
                               before |-> st.context.surfaces ]) ])))

RECURSIVE SurfaceLoop(_, _, _)
SurfaceLoop(st, surfaces, keys) ==
    IF keys = << >> THEN st
    ELSE SurfaceLoop(SurfaceStep(st, Head(keys), surfaces[Head(keys)]), surfaces, Tail(keys))

\* std::map iterates in ascending key order
buildSurfaces(clipper, context, surfaces) ==
    SurfaceLoop([ clipper |-> clipper, context |-> context, entries |-> << >> ],
                surfaces, KeysAscending(DOMAIN surfaces))

buildBackground(clipper, context) ==
    LET c1 == AddPath(clipper, context.clipRect, "ptSubject")
        c2 == AddPaths(c1, context.carRoads, "ptClip")
        c3 == AddPaths(c2, context.walkRoads, "ptClip")
        c4 == AddPaths(c3, context.water, "ptClip")
        c5 == AddPaths(c4, context.surfaces, "ptClip")
    IN  Bind(Execute(c5, "ctDifference", "pftPositive", "pftPositive"), LAMBDA e :
            [ clipper |-> Clear(e.clipper),
              context |-> [ context EXCEPT !.background = e.out ] ])

\* ------------------------------------------------- the state machine
VARIABLES
    pc,                 \* position in TerraBuilder::build
    tileRect,           \* the argument of build
    waters_, carRoads_, walkRoads_, surfaces_,    \* the builder's members
    clipper, offset,    \* the engine instances
    context,            \* TerraContext
    solution,           \* buildWater: the union before clipping
    carRoadPaths, walkRoadsPaths, extrudedWalkRoads,   \* buildRoads: its locals
    surfaceEntries,     \* buildSurfaces: per key, the union and the result
    trace,              \* the stages run so far, in order
    meshPaths,          \* populateMesh: its paths argument
    returned            \* the mesh build returned

vars == << pc, tileRect, waters_, carRoads_, walkRoads_, surfaces_, clipper, offset,
           context, solution, carRoadPaths, walkRoadsPaths, extrudedWalkRoads,
           surfaceEntries, trace, meshPaths, returned >>

SeqsUpTo(n, S) == UNION { [ 1 .. k -> S ] : k \in 0 .. n }

\* the inputs enumerated
TilePool ==
    { [ xMin |-> 0, yMin |-> 0, xMax |-> GridMax, yMax |-> GridMax ],
      [ xMin |-> 1, yMin |-> 1, xMax |-> GridMax, yMax |-> GridMax ] }
WaterPool == { Rect(0, 0, GridMax - 1, GridMax - 1), Rect(1, 1, GridMax, GridMax) }
CarRoad == << <<0, 1>>, <<GridMax - 1, 1>> >>
WalkRoad == << <<1, 0>>, <<1, GridMax - 1>> >>
SurfaceKeys == { 1, 2 }
SurfaceRegion(k) == IF k = 1 THEN Rect(0, 1, GridMax - 1, GridMax) ELSE Rect(1, 0, GridMax, GridMax - 1)
RoadMaps(road) == { [ k \in D |-> << road >> ] : D \in SUBSET RoadKeys }
SurfaceMaps ==
    { [ k \in D |-> [ i \in 1 .. n |-> SurfaceRegion(k) ] ] :
        D \in SUBSET SurfaceKeys, n \in 1 .. MaxRegions }
QRect(w, h) ==
    << <<0, 0>>, <<w * Quantum, 0>>, <<w * Quantum, h * Quantum>>, <<0, h * Quantum>> >>
Reverse(path) == [ i \in 1 .. Len(path) |-> path[Len(path) + 1 - i] ]
MeshPool ==
    { QRect(w, h) : w \in { 1, 2, 5, 10 }, h \in { 1, 2, 5 } } \cup { Reverse(QRect(5, 2)) }

Idle ==
    /\ clipper = NewClipper
    /\ offset = NewOffset
    /\ context = NewContext
    /\ solution = << >>
    /\ carRoadPaths = << >>
    /\ walkRoadsPaths = << >>
    /\ extrudedWalkRoads = << >>
    /\ surfaceEntries = << >>
    /\ trace = << >>
    /\ returned = << >>

Init ==
    /\ pc = "build"
    /\ tileRect \in TilePool
    /\ waters_ \in SeqsUpTo(MaxRegions, WaterPool)
    /\ carRoads_ \in RoadMaps(CarRoad)
    /\ walkRoads_ \in RoadMaps(WalkRoad)
    /\ surfaces_ \in SurfaceMaps
    /\ meshPaths = << >>
    /\ Idle

inputs == << tileRect, waters_, carRoads_, walkRoads_, surfaces_, meshPaths >>
roadLocals == << carRoadPaths, walkRoadsPaths, extrudedWalkRoads >>

\* build calling buildSurfaces before buildRoads
NextStageSwapped(stage) ==
    CASE stage = "build" -> "water"
      [] stage = "water" -> "surfaces"
      [] stage = "surfaces" -> "roads"
      [] stage = "roads" -> "background"
      [] stage = "background" -> "return"

\* the order in which build calls the stages
NextStage(stage) ==
    CASE stage = "build" -> "water"
      [] stage = "water" -> "roads"
      [] stage = "roads" -> "surfaces"
      [] stage = "surfaces" -> "background"
      [] stage = "background" -> "return"

\* Clipper clipper; TerraContext context(1, 8); context.clipRect = ...
Begin ==
    /\ pc = "build"
    /\ clipper' = NewClipper
    /\ context' = [ NewContext EXCEPT !.clipRect = createPathFromRect(tileRect) ]
    /\ pc' = NextStage(pc)
    /\ UNCHANGED << inputs, offset, solution, roadLocals, surfaceEntries, trace, returned >>

BuildWater ==
    /\ pc = "water"
    /\ \E r \in { buildWater(clipper, context, waters_) } :
           /\ clipper' = r.clipper
           /\ context' = r.context
           /\ solution' = r.solution
    /\ trace' = Append(trace, "buildWater")
    /\ pc' = NextStage(pc)
    /\ UNCHANGED << inputs, offset, roadLocals, surfaceEntries, returned >>

BuildRoads ==
    /\ pc = "roads"
    /\ \E r \in { buildRoads(clipper, context, carRoads_, walkRoads_) } :
           /\ clipper' = r.clipper
           /\ offset' = r.offset
           /\ context' = r.context
           /\ carRoadPaths' = r.carRoadPaths
           /\ walkRoadsPaths' = r.walkRoadsPaths
           /\ extrudedWalkRoads' = r.extrudedWalkRoads
    /\ trace' = Append(trace, "buildRoads")
    /\ pc' = NextStage(pc)
    /\ UNCHANGED << inputs, solution, surfaceEntries, returned >>

BuildSurfaces ==
    /\ pc = "surfaces"
    /\ \E r \in { buildSurfaces(clipper, context, surfaces_) } :
           /\ clipper' = r.clipper
           /\ context' = r.context
           /\ surfaceEntries' = r.entries
    /\ trace' = Append(trace, "buildSurfaces")
    /\ pc' = NextStage(pc)
    /\ UNCHANGED << inputs, offset, solution, roadLocals, returned >>

BuildBackground ==
    /\ pc = "background"
    /\ \E r \in { buildBackground(clipper, context) } :
           /\ clipper' = r.clipper
           /\ context' = r.context
    /\ trace' = Append(trace, "buildBackground")
    /\ pc' = NextStage(pc)
    /\ UNCHANGED << inputs, offset, solution, roadLocals, surfaceEntries, returned >>

\* return std::move(context.mesh)
Return ==
    /\ pc = "return"
    /\ returned' = context.mesh
    /\ pc' = "done"
    /\ UNCHANGED << inputs, clipper, offset, context, solution, roadLocals, surfaceEntries, trace >>

Next == Begin \/ BuildWater \/ BuildRoads \/ BuildSurfaces \/ BuildBackground \/ Return

Spec == Init /\ [][Next]_vars

\* populateMesh on its own: any committed paths, one call
InitMesh ==
    /\ pc = "mesh"
    /\ tileRect \in TilePool
    /\ waters_ = << >>
    /\ carRoads_ = << >>
    /\ walkRoads_ = << >>
    /\ surfaces_ = << >>
    /\ meshPaths \in SeqsUpTo(MaxRegions, MeshPool)
    /\ Idle

PopulateMesh ==
    /\ pc = "mesh"
    /\ context' = [ context EXCEPT !.mesh = populateMesh(context.mesh, "background", meshPaths) ]
    /\ pc' = "meshed"
    /\ UNCHANGED << inputs, clipper, offset, solution, roadLocals, surfaceEntries, trace, returned >>

NextMesh == PopulateMesh

SpecMesh == InitMesh /\ [][NextMesh]_vars

\* ------------------------------------------------- the properties
TileCells ==
    { c \in Cells : /\ tileRect.xMin <= c[1] /\ c[1] < tileRect.xMax
                    /\ tileRect.yMin <= c[2] /\ c[2] < tileRect.yMax }

Water == Covered(context.water)
Car == Covered(context.carRoads)
Walk == Covered(context.walkRoads)
Surf == Covered(context.surfaces)
Back == Covered(context.background)

AfterRoads == pc \in { "surfaces", "background", "return", "done" }
AfterSurfaces == pc \in { "background", "return", "done" }
AfterBackground == pc \in { "return", "done" }

\* C1: when build has finished, the five committed sets together cover
\* exactly the tile rectangle.
C1_PartitionComplete ==
    pc = "done" => (Water \cup Car \cup Walk \cup Surf \cup Back) = TileCells

\* C2: when build has finished, no point belongs to two different committed
\* sets.
C2_PairwiseDisjoint ==
    pc = "done" =>
        LET layers == << Water, Car, Walk, Surf, Back >>
        IN  \A i, j \in 1 .. 5 : i < j => layers[i] \cap layers[j] = {}

C2_Witness ==
    /\ pc = "done"
    /\ waters_ # << >>
    /\ DOMAIN carRoads_ # {}
    /\ DOMAIN walkRoads_ # {}
    /\ DOMAIN surfaces_ = SurfaceKeys

\* the cells some region of the collection covers
InRegions(regions) == { c \in Cells : \E i \in 1 .. Len(regions) : InRegion(regions[i], c) }

\* C3: the surface keys are processed in ascending order, and a point of the
\* tile that two keys k1 < k2 both cover, outside water and roads, is
\* committed with k1 and not with k2.
C3_SurfacePriority ==
    AfterSurfaces =>
        /\ \A i, j \in 1 .. Len(surfaceEntries) :
               i < j => surfaceEntries[i].key < surfaceEntries[j].key
        /\ \A i, j \in 1 .. Len(surfaceEntries) :
               i < j =>
                   \A c \in TileCells :
                       ( /\ c \in InRegions(surfaces_[surfaceEntries[i].key])
                         /\ c \in InRegions(surfaces_[surfaceEntries[j].key])
                         /\ c \notin InRegions(waters_)
                         /\ c \notin Covered(carRoadPaths)
                         /\ c \notin Covered(walkRoadsPaths)
                         /\ c \notin Water \cup Car \cup Walk )
                       => ( /\ c \in Covered(surfaceEntries[i].result)
                            /\ c \notin Covered(surfaceEntries[j].result) )

\* C4: after buildRoads, inside the tile, committed water is in neither
\* committed road set, an offset car road is never in the committed walk
\* roads, and an offset car road outside water is in the committed car roads.
C4_RoadPrecedence ==
    AfterRoads =>
        \A c \in TileCells :
            /\ c \in Water => (c \notin Car /\ c \notin Walk)
            /\ c \in Covered(carRoadPaths) => c \notin Walk
            /\ (c \in Covered(carRoadPaths) /\ c \notin Water) => c \in Car

\* C5: after buildBackground, the committed background is the tile rectangle
\* less the other four committed sets.
C5_BackgroundComplement ==
    AfterBackground => Back = TileCells \ (Car \cup Walk \cup Water \cup Surf)

\* C6: a point of the tile covered by one or more regions of a layer is in
\* the union computed for that layer (the water union of buildWater, the
\* per-key union of buildSurfaces), however many regions cover it.
C6_PositiveFillUnion ==
    /\ pc # "build" /\ pc # "water" =>
           \A c \in TileCells : c \in InRegions(waters_) => c \in Covered(solution)
    /\ AfterSurfaces =>
           \A i \in 1 .. Len(surfaceEntries) :
               \A c \in TileCells :
                   c \in InRegions(surfaces_[surfaceEntries[i].key])
                       => c \in Covered(surfaceEntries[i].surfacesUnion)

\* C7: the mesh holds a fragment for a committed region exactly when the
\* region's absolute area, over Scale squared, is at least 0.001.
C7_MeshHoldsLargeRegions ==
    pc = "meshed" =>
        \A i \in 1 .. Len(meshPaths) :
            (1000 * Abs(TwiceAreaQ(meshPaths[i])) >= 2 * DoubleScaleQ)
                <=> (\E j \in 1 .. Len(context.mesh) : context.mesh[j].path = meshPaths[i])

IsPrefix(s, t) == Len(s) <= Len(t) /\ \A i \in 1 .. Len(s) : s[i] = t[i]

\* C8: the stages run in the order water, roads, surfaces, background, once
\* each, and no stage changes what an earlier stage committed: buildRoads
\* leaves water and clipRect, buildSurfaces leaves water and the roads and
\* only appends to surfaces, buildBackground writes background only.
C8_MonotoneContext ==
    [][ /\ pc' = "done" =>
               trace' = << "buildWater", "buildRoads", "buildSurfaces", "buildBackground" >>
        /\ IsPrefix(trace, trace')
        /\ pc = "roads" =>
               /\ context'.water = context.water
               /\ context'.clipRect = context.clipRect
               /\ context'.surfaces = context.surfaces
               /\ context'.background = context.background
        /\ pc = "surfaces" =>
               /\ context'.water = context.water
               /\ context'.carRoads = context.carRoads
               /\ context'.walkRoads = context.walkRoads
               /\ context'.clipRect = context.clipRect
               /\ context'.background = context.background
               /\ IsPrefix(context.surfaces, context'.surfaces)
               /\ \A i \in 1 .. Len(surfaceEntries') :
                      /\ surfaceEntries'[i].before =
                             (IF i = 1 THEN context.surfaces
                              ELSE surfaceEntries'[i - 1].before \o surfaceEntries'[i - 1].result)
                      /\ IsPrefix(surfaceEntries'[i].before \o surfaceEntries'[i].result,
                                  context'.surfaces)
        /\ pc = "background" =>
               [ context' EXCEPT !.background = << >> ] = [ context EXCEPT !.background = << >> ]
      ]_vars

C8_Witness ==
    /\ pc = "done"
    /\ Len(trace) = 4
    /\ Len(surfaceEntries) = 2
    /\ waters_ # << >>
    /\ DOMAIN carRoads_ # {}

ExecuteThenClear(log) ==
    \A i \in 1 .. Len(log) : log[i] = "Execute" => (i < Len(log) /\ log[i + 1] = "Clear")

\* C9: between stages and when build returns, the Clipper and the
\* ClipperOffset hold no paths, and on either instance every Execute is
\* followed by Clear before anything else is added.
C9_EngineCleared ==
    /\ clipper.subj = << >>
    /\ clipper.clip = << >>
    /\ offset.paths = << >>
    /\ ExecuteThenClear(clipper.log)
    /\ ExecuteThenClear(offset.log)

C9_Witness ==
    /\ pc = "done"
    /\ \E i \in 1 .. Len(offset.log) : offset.log[i] = "Execute"
    /\ Cardinality({ i \in 1 .. Len(clipper.log) : clipper.log[i] = "Execute" }) >= 16

Faithful(region, path) ==
    /\ Len(path) = Len(region)
    /\ \A i \in 1 .. Len(region) :
           path[i] = << region[i][1] * Scale, region[i][2] * Scale >>

\* C10: m regions convert to exactly m paths, and a region of n points to
\* the path of its n points times Scale, in order.
C10_FaithfulConversion ==
    AfterSurfaces =>
        /\ \A i \in 1 .. Len(waters_) : Faithful(waters_[i], PathOfRegion(waters_[i]))
        /\ \A k \in DOMAIN surfaces_ :
               /\ Len(buildPaths(surfaces_[k])) = Len(surfaces_[k])
               /\ \A i \in 1 .. Len(surfaces_[k]) :
                      Faithful(surfaces_[k][i], buildPaths(surfaces_[k])[i])

====
